---- MODULE Spec2Model ----
(***************************************************************************)
(* Model of server/app/contrib/asyncpg/config.py: the asyncpg pool wired   *)
(* into the Litestar request lifecycle.                                    *)
(*                                                                         *)
(*  - AsyncpgConfig.on_startup / on_shutdown / create_pool keep the pool   *)
(*    in the application state;                                            *)
(*  - AsyncpgConfig.provide_connection leases a connection per scope       *)
(*    (two steps: up to the suspension in pool.acquire(), and the resume); *)
(*  - default_before_send_handler / autocommit_before_send_handler are     *)
(*    run for every outbound ASGI message of a scope.                      *)
(*                                                                         *)
(* The pool and the connections are the library's objects.  They are       *)
(* modelled by their interface: acquire() hands out an idle connection or  *)
(* stays suspended, release(c) puts c back or raises, commit()/rollback()  *)
(* return or raise, close() marks the pool closed.  A release(c) that      *)
(* raises leaves c leased, or has dropped c and made its slot idle again:  *)
(* the caller cannot tell which.                                           *)
(* asyncio.wait_for(fut, timeout) has a required parameter `timeout`:      *)
(* the call at line 84 passes one argument, so the call itself raises      *)
(* TypeError after its argument pool.release(session) was evaluated (the   *)
(* coroutine object is created, never awaited).                            *)
(***************************************************************************)
EXTENDS Integers, Sequences, FiniteSets, TLC

\* ---------------------------------------------------------------- bounds
NumConns == 1          \* connections the pool owns (its max_size)
NumScopes == 2         \* request scopes alive at once
NumTasks == 2          \* provide_connection calls suspended at once

None == 0              \* Python's None in place of a connection or a scope
NoPool == "None"       \* Python's None where a Pool is expected
NoError == "None"      \* the call returned normally
ThePool == "pool"      \* the one Pool object an AsyncpgConfig ever holds
Conns == 1..NumConns
Scopes == 1..NumScopes

\* ------------------------------------------------------------- constants
HTTP_RESPONSE_START == "http.response.start"
HTTP_RESPONSE_BODY == "http.response.body"
HTTP_DISCONNECT == "http.disconnect"
WEBSOCKET_DISCONNECT == "websocket.disconnect"
WEBSOCKET_CLOSE == "websocket.close"

SESSION_TERMINUS_ASGI_EVENTS ==
    {HTTP_RESPONSE_START, HTTP_DISCONNECT, WEBSOCKET_DISCONNECT,
     WEBSOCKET_CLOSE}

\* status codes carried by http.response.start (both edges of [200, 300))
Statuses == {101, 200, 300, 404}

\* the ASGI messages handed to a before-send handler
Messages ==
    [type : {HTTP_RESPONSE_START}, status : Statuses]
    \cup [type : {HTTP_RESPONSE_BODY, HTTP_DISCONNECT, WEBSOCKET_DISCONNECT,
                  WEBSOCKET_CLOSE},
          status : {0}]

VARIABLES
    poolConfig,     \* AsyncpgConfig.pool_config is set (TRUE) or None (FALSE)
    poolInstance,   \* AsyncpgConfig.pool_instance: None or ThePool
    handler,        \* AsyncpgConfig.before_send_handler
    appState,       \* app.state[pool_app_state_key]: None (absent) or ThePool
    poolClosed,     \* Pool.close() has been called on ThePool
    free,           \* connections idle in the pool
    owner,          \* owner[c]: the scope c was acquired for, None when idle
    session,        \* session[s]: scope state under SESSION_SCOPE_KEY
    poolEntry,      \* poolEntry[s]: scope state under POOL_SCOPE_KEY
    pending,        \* pending[s]: provide_connection calls of scope s that
                    \*   are suspended in pool.acquire()
    relCalls,       \* relCalls[c]: invocations of pool.release(c) in the
                    \*   lease of c: 0, 1, or 2 for "more than once"
    prevRet,        \* prevRet[s]: last handle provide_connection returned for s
                    \*   with no pool.release() since, else None
    last            \* the operation that just ran and what it did

vars == <<poolConfig, poolInstance, handler, appState, poolClosed, free, owner,
          session, poolEntry, pending, relCalls, prevRet, last>>

cfgVars == <<poolConfig, handler>>
taskVars == <<pending>>

\* --------------------------------------------------------------- helpers
Event(op, s, m, calls, raised) ==
    [op |-> op, scope |-> s, type |-> m.type, status |-> m.status,
     calls |-> calls, raised |-> raised, ret |-> None, prev |-> None,
     sess0 |-> None, pool0 |-> NoPool, fresh |-> FALSE, txOk |-> TRUE,
     rel |-> 0, again |-> FALSE, app0 |-> NoPool, inst0 |-> NoPool,
     built |-> NoPool, pret |-> NoPool]

NoMsg == [type |-> "None", status |-> 0]

\* get_litestar_scope_state(scope, key): the entry, None when absent
get_litestar_scope_state(entries, s) == entries[s]

\* set_litestar_scope_state(scope, SESSION_SCOPE_KEY, connection)
set_litestar_scope_state(entries, s, value) == [entries EXCEPT ![s] = value]

\* a handler that forgets to clear the entry
delete_litestar_scope_state_Skipped(entries, s) == entries

\* delete_litestar_scope_state(scope, SESSION_SCOPE_KEY)
delete_litestar_scope_state(entries, s) == [entries EXCEPT ![s] = None]

\* the success range with its upper edge included
IsSuccessStatus_UpTo300(status) == 200 <= status /\ status <= 300

\* line 78: 200 <= message["status"] < 300
IsSuccessStatus(status) == 200 <= status /\ status < 300

\* line 57: pool and session and message["type"] in SESSION_TERMINUS_ASGI_EVENTS
DefaultReleaseGuard(pool, sess, type) ==
    pool # NoPool /\ sess # None /\ type \in SESSION_TERMINUS_ASGI_EVENTS

\* the transaction step without its check of the session
AutocommitTxGuard_NoSessionCheck(sess, type) == type = HTTP_RESPONSE_START

\* line 77: session is not None and message["type"] == HTTP_RESPONSE_START
AutocommitTxGuard(sess, type) == sess # None /\ type = HTTP_RESPONSE_START

\* the release step without its test of the message type
AutocommitReleaseGuard_AnyType(sess, type) == sess # None

\* line 83: session and message["type"] in SESSION_TERMINUS_ASGI_EVENTS
AutocommitReleaseGuard(sess, type) ==
    sess # None /\ type \in SESSION_TERMINUS_ASGI_EVENTS

\* one more invocation of pool.release(c) in the lease of c
CountRelease(c) == IF relCalls[c] < 2 THEN relCalls[c] + 1 ELSE relCalls[c]

\* Pool.release(c), awaited to completion: c is idle again, its lease over
PoolRelease(c) ==
    /\ free' = free \cup {c}
    /\ owner' = [owner EXCEPT ![c] = None]
    /\ relCalls' = [relCalls EXCEPT ![c] = 0]

\* how an awaited pool.release(c) ends: it returns (c is idle) or it raises
\* with c still leased
ReleaseOutcomes == {"returns", "raises_leased"}

\* a pool that cannot reset c drops it: release(c) raises and the slot of c
\* is idle again
ReleaseDrops == "raises_idle"

\* ------------------------------------------------------------------ Init
\* what no request has touched yet
InitRequests ==
    /\ handler \in {"default_before_send_handler",
                    "autocommit_before_send_handler"}
    /\ poolClosed = FALSE
    /\ free = Conns
    /\ owner = [c \in Conns |-> None]
    /\ session = [s \in Scopes |-> None]
    \* nothing in this file writes POOL_SCOPE_KEY; the scope is an input of
    \* the handlers, handed in with or without that entry (the same way for
    \* every scope of one application)
    /\ poolEntry \in {[s \in Scopes |-> p] : p \in {NoPool, ThePool}}
    /\ pending = [s \in Scopes |-> 0]
    /\ relCalls = [c \in Conns |-> 0]
    /\ prevRet = [s \in Scopes |-> None]
    /\ last = Event("init", None, NoMsg, <<>>, NoError)

\* a constructed AsyncpgConfig, before on_startup
InitApp ==
    /\ poolConfig \in BOOLEAN
    /\ poolInstance \in {NoPool, ThePool}
    /\ appState = NoPool
    /\ InitRequests

\* the application serves requests: on_startup has created the pool from
\* pool_config and stored it
Init ==
    /\ poolConfig = TRUE
    /\ poolInstance = ThePool
    /\ appState = ThePool
    /\ InitRequests

\* ------------------------------------------------------- pool life cycle
\* what asyncpg.create_pool(**pool_config) hands back at line 231
Built == {NoPool, ThePool}

\* an operation on the AsyncpgConfig and the application state
AppEvent(op, calls, raised) ==
    [Event(op, None, NoMsg, calls, raised)
        EXCEPT !.app0 = appState, !.inst0 = poolInstance]

\* line 227 without its test: a config with neither setting goes on to build
HasNoPoolConfig_Ignored(cfg) == FALSE

\* line 227: self.pool_config is None
HasNoPoolConfig(cfg) == ~cfg

\* AsyncpgConfig.create_pool: what it returns or raises, the calls it makes
\* and pool_instance afterwards; built is the result of line 231.
\* (pool_config_dict, lines 181-183, raises only for a falsy pool_config,
\* which line 227 has excluded.)
create_pool(built) ==
    IF poolInstance # NoPool
    THEN [raised |-> NoError, pool |-> poolInstance, inst |-> poolInstance,
          calls |-> <<>>]
    ELSE IF HasNoPoolConfig(poolConfig)
    THEN [raised |-> "ImproperlyConfiguredException", pool |-> NoPool,
          inst |-> poolInstance, calls |-> <<>>]
    ELSE IF built = NoPool
    THEN [raised |-> "ImproperlyConfiguredException", pool |-> NoPool,
          inst |-> built, calls |-> <<"asyncpg_create_pool">>]
    ELSE [raised |-> NoError, pool |-> built, inst |-> built,
          calls |-> <<"asyncpg_create_pool">>]

\* a call of AsyncpgConfig.create_pool on its own
create_pool_call(built) ==
    LET r == create_pool(built) IN
    /\ poolInstance' = r.inst
    /\ last' = [AppEvent("create_pool", r.calls, r.raised)
                   EXCEPT !.pret = r.pool,
                          !.built = IF r.calls = <<>> THEN NoPool ELSE built]
    /\ UNCHANGED <<cfgVars, appState, poolClosed, free, owner, session,
                   poolEntry, taskVars, relCalls, prevRet>>

\* AsyncpgConfig.on_startup -> update_app_state -> create_app_state_items:
\* app.state.update({pool_app_state_key: create_pool()})
on_startup(built) ==
    LET r == create_pool(built) IN
    /\ poolInstance' = r.inst
    /\ appState' = IF r.raised = NoError THEN r.pool ELSE appState
    /\ last' = [AppEvent("on_startup", r.calls, r.raised)
                   EXCEPT !.built = IF r.calls = <<>> THEN NoPool ELSE built]
    /\ UNCHANGED <<cfgVars, poolClosed, free, owner, session, poolEntry,
                   taskVars, relCalls, prevRet>>

\* a pop that leaves the key in the state
StatePop_KeepsKey(state) == state

\* app.state.pop(key), line 203: the state without the key
StatePop(state) == NoPool

\* AsyncpgConfig.on_shutdown: State.pop(key) without a default raises
\* KeyError when the key is absent; otherwise the pool is closed.
on_shutdown ==
    /\ IF appState = NoPool
       THEN /\ last' = AppEvent("on_shutdown", <<>>, "KeyError")
            /\ UNCHANGED <<appState, poolClosed>>
       ELSE /\ appState' = StatePop(appState)
            /\ poolClosed' = TRUE
            /\ last' = AppEvent("on_shutdown", <<"close">>, NoError)
    /\ UNCHANGED <<cfgVars, poolInstance, free, owner, session, poolEntry,
                   taskVars, relCalls, prevRet>>

\* AsyncpgConfig.provide_pool: state.get(key), None when absent
provide_pool == appState

\* a call of AsyncpgConfig.provide_pool on its own
provide_pool_call ==
    /\ last' = [AppEvent("provide_pool", <<>>, NoError)
                   EXCEPT !.pret = provide_pool]
    /\ UNCHANGED <<cfgVars, poolInstance, appState, poolClosed, free, owner,
                   session, poolEntry, taskVars, relCalls, prevRet>>

\* ---------------------------------------------------- provide_connection
RECURSIVE SumOver(_, _)
SumOver(f, S) ==
    IF S = {} THEN 0
    ELSE LET x == CHOOSE y \in S : TRUE IN f[x] + SumOver(f, S \ {x})

\* calls suspended in pool.acquire(), over all scopes
InFlight == SumOver(pending, Scopes)

\* provide_connection that ignores the cached connection
NeedsAcquire_Always(connection) == TRUE

\* line 263: connection is None
NeedsAcquire(connection) == connection = None

\* the operation before this one was the handler that released the
\* connection of scope s and cleared its entry (lines 58-59)
JustReleased(s) ==
    /\ last.op = "default_before_send_handler"
    /\ last.scope = s
    /\ last.calls = <<"release">>
    /\ last.raised = NoError

\* lines 260-265: the call up to its return (connection cached in the
\* scope), its failure (no pool in the state: None.acquire) or its
\* suspension in pool.acquire().
provide_connection(s) ==
    /\ LET connection == get_litestar_scope_state(session, s)
           ev(calls, raised) ==
               [Event("provide_connection", s, NoMsg, calls, raised)
                   EXCEPT !.prev = prevRet[s], !.sess0 = connection,
                          !.pool0 = poolEntry[s], !.again = JustReleased(s),
                          !.app0 = appState]
       IN
       IF ~NeedsAcquire(connection)
       THEN /\ last' = [ev(<<>>, NoError) EXCEPT !.ret = connection]
            /\ prevRet' = [prevRet EXCEPT ![s] = connection]
            /\ UNCHANGED taskVars
       ELSE IF provide_pool = NoPool
       THEN /\ last' = ev(<<>>, "AttributeError")
            /\ UNCHANGED <<taskVars, prevRet>>
       ELSE /\ InFlight < NumTasks
            /\ pending' = [pending EXCEPT ![s] = @ + 1]
            /\ last' = [ev(<<"acquire">>, NoError)
                           EXCEPT !.op = "provide_connection_await"]
            /\ UNCHANGED prevRet
    /\ UNCHANGED <<cfgVars, poolInstance, appState, poolClosed, free, owner,
                   session, poolEntry, relCalls>>

\* lines 265-267: pool.acquire() hands over an idle connection; it is stored
\* under SESSION_SCOPE_KEY and returned.
acquire_resume(s) ==
    /\ pending[s] > 0
    /\ ~poolClosed
    /\ \E c \in free :
        /\ free' = free \ {c}
        /\ owner' = [owner EXCEPT ![c] = s]
        /\ relCalls' = [relCalls EXCEPT ![c] = 0]
        /\ session' = set_litestar_scope_state(session, s, c)
        /\ prevRet' = [prevRet EXCEPT ![s] = c]
        /\ last' = [Event("provide_connection", s, NoMsg, <<"acquire">>,
                          NoError)
                       EXCEPT !.ret = c, !.sess0 = session[s],
                              !.pool0 = poolEntry[s]]
    /\ pending' = [pending EXCEPT ![s] = @ - 1]
    /\ UNCHANGED <<cfgVars, poolInstance, appState, poolClosed, poolEntry>>

\* line 265: pool.acquire() raises on a closed pool; nothing is stored.
acquire_raise(s) ==
    /\ pending[s] > 0
    /\ poolClosed
    /\ last' = [Event("provide_connection", s, NoMsg, <<"acquire">>,
                      "InterfaceError")
                   EXCEPT !.sess0 = session[s], !.pool0 = poolEntry[s]]
    /\ pending' = [pending EXCEPT ![s] = @ - 1]
    /\ UNCHANGED <<cfgVars, poolInstance, appState, poolClosed, free, owner,
                   session, poolEntry, relCalls, prevRet>>

\* --------------------------------------------------- before-send handlers
\* the operation before this one was the provide_connection call that
\* acquired sess for scope s: nothing has been sent for s in this lease
JustProvided(s, sess) ==
    /\ sess # None
    /\ last.op = "provide_connection"
    /\ last.calls = <<"acquire">>
    /\ last.scope = s
    /\ last.ret = sess

HandlerEvent(s, m, calls, raised, sess, pool) ==
    [Event(handler, s, m, calls, raised)
        EXCEPT !.sess0 = sess, !.pool0 = pool, !.fresh = JustProvided(s, sess)]

\* default_before_send_handler(message, scope); rel: how pool.release ends
default_before_send_handler(s, m, rel) ==
    /\ handler = "default_before_send_handler"
    /\ LET sess == get_litestar_scope_state(session, s)
           pool == get_litestar_scope_state(poolEntry, s)
       IN
       IF DefaultReleaseGuard(pool, sess, m.type)
       THEN /\ IF rel = "returns"
               THEN /\ PoolRelease(sess)
                    /\ session' = delete_litestar_scope_state(session, s)
                    /\ prevRet' = [prevRet EXCEPT ![s] = None]
                    /\ last' = [HandlerEvent(s, m, <<"release">>, NoError,
                                             sess, pool)
                                   EXCEPT !.rel = CountRelease(sess)]
               ELSE /\ IF rel = ReleaseDrops
                       THEN PoolRelease(sess)
                       ELSE /\ relCalls' = [relCalls EXCEPT
                                               ![sess] = CountRelease(sess)]
                            /\ UNCHANGED <<free, owner>>
                    /\ last' = [HandlerEvent(s, m, <<"release">>,
                                             "ReleaseError", sess, pool)
                                   EXCEPT !.rel = CountRelease(sess)]
                    /\ UNCHANGED <<session, prevRet>>
       ELSE /\ rel = "returns"
            /\ last' = [HandlerEvent(s, m, <<>>, NoError, sess, pool)
                           EXCEPT !.rel = IF sess = None THEN 0
                                          ELSE relCalls[sess]]
            /\ UNCHANGED <<free, owner, session, prevRet, relCalls>>
    /\ UNCHANGED <<cfgVars, poolInstance, appState, poolClosed, poolEntry,
                   taskVars>>

\* lines 76-81: the commit()/rollback() call of the try block, <<>> if none
AutocommitTxCalls(sess, m) ==
    IF AutocommitTxGuard(sess, m.type)
    THEN IF IsSuccessStatus(m.status) THEN <<"commit">> ELSE <<"rollback">>
    ELSE <<>>

\* lines 82-85: the finally block.  pool.release(session) is evaluated as
\* the argument of asyncio.wait_for, which then raises TypeError (no
\* timeout argument): the release coroutine is never awaited and line 85 is
\* not reached.  With no pool entry in the scope, None.release raises first.
AutocommitFinally(sess, pool, m) ==
    IF AutocommitReleaseGuard(sess, m.type)
    THEN IF pool = NoPool
         THEN [calls |-> <<>>, raised |-> "AttributeError"]
         ELSE [calls |-> <<"release">>, raised |-> "TypeError"]
    ELSE [calls |-> <<>>, raised |-> NoError]

\* autocommit_before_send_handler(message, scope); txOk: commit()/rollback()
\* returns
autocommit_before_send_handler(s, m, txOk) ==
    /\ handler = "autocommit_before_send_handler"
    /\ LET sess == get_litestar_scope_state(session, s)
           pool == get_litestar_scope_state(poolEntry, s)
           tx == AutocommitTxCalls(sess, m)
           fin == AutocommitFinally(sess, pool, m)
           raised == IF fin.raised # NoError THEN fin.raised
                     ELSE IF ~txOk THEN "TransactionError" ELSE NoError
       IN
       /\ tx = <<>> => txOk
       /\ IF fin.calls # <<>>
          THEN relCalls' = [relCalls EXCEPT ![sess] = CountRelease(sess)]
          ELSE UNCHANGED relCalls
       /\ last' = [HandlerEvent(s, m, tx \o fin.calls, raised, sess, pool)
                      EXCEPT !.txOk = txOk,
                             !.rel = IF sess = None THEN 0
                                     ELSE relCalls'[sess]]
    /\ UNCHANGED <<cfgVars, poolInstance, appState, poolClosed, free, owner,
                   session, poolEntry, taskVars, prevRet>>

\* ------------------------------------------------------------------ Next
\* the requests of a serving application
Next ==
    \/ \E s \in Scopes : provide_connection(s)
    \/ \E s \in Scopes : acquire_resume(s)
    \/ \E s \in Scopes, m \in Messages, rel \in ReleaseOutcomes :
          default_before_send_handler(s, m, rel)
    \/ \E s \in Scopes, m \in Messages, txOk \in BOOLEAN :
          autocommit_before_send_handler(s, m, txOk)

Spec == Init /\ [][Next]_vars

\* the event loop resumes a call suspended in pool.acquire() once the pool
\* has an idle connection for it
FairSpec == Spec /\ \A s \in Scopes : WF_vars(acquire_resume(s))

\* the requests of an application whose pool may also drop a connection it
\* fails to release
NextDrop ==
    \/ \E s \in Scopes, m \in Messages :
          default_before_send_handler(s, m, ReleaseDrops)
    \/ Next

SpecDrop == Init /\ [][NextDrop]_vars

\* the application from its construction on: the pool's life cycle, the
\* lookups of the pool and the calls that acquire from it
NextApp ==
    \/ \E built \in Built : on_startup(built)
    \/ on_shutdown
    \/ \E built \in Built : create_pool_call(built)
    \/ provide_pool_call
    \/ \E s \in Scopes : provide_connection(s)
    \/ \E s \in Scopes : acquire_resume(s)
    \/ \E s \in Scopes : acquire_raise(s)

SpecApp == InitApp /\ [][NextApp]_vars

TypeOK ==
    /\ free \subseteq Conns
    /\ \A c \in Conns : (c \in free) <=> (owner[c] = None)
    /\ \A s \in Scopes : session[s] \in Conns \cup {None}
    /\ \A s \in Scopes : prevRet[s] \in {None, session[s]}
    /\ \A c \in Conns : relCalls[c] \in 0..2

\* ---------------------------------------------------------------- claims
\* the terminus signals, as the claims list them
TerminusSignals ==
    {"http.response.start", "http.disconnect", "websocket.disconnect",
     "websocket.close"}

PlainRan == last.op = "default_before_send_handler"
AutocommitRan == last.op = "autocommit_before_send_handler"
HandlerRan == PlainRan \/ AutocommitRan
CallsMade == {last.calls[i] : i \in 1..Len(last.calls)}
InSuccessRange(status) == status >= 200 /\ status < 300

\* C1 (as claimed): under the plain policy the first terminus signal handled
\* for a scope holding a connection from provide_connection (here: the
\* signal that directly follows the call that acquired it) releases it: when
\* the handler returns the scope has no connection entry and the connection
\* is idle in the pool.
C1_PlainTerminusReleases ==
    (/\ PlainRan
     /\ last.type \in TerminusSignals
     /\ last.sess0 # None
     /\ last.fresh
     /\ last.raised = NoError)
    => (session[last.scope] = None /\ last.sess0 \in free)

\* C2 (as claimed): pool.release is invoked at most once per lease; once a
\* terminus signal was handled for a scope holding a connection it has been
\* invoked exactly once; a terminus signal for a scope whose connection is
\* gone invokes nothing.
C2_ReleaseExactlyOnce ==
    /\ \A c \in Conns : relCalls[c] <= 1
    /\ (HandlerRan /\ last.type \in TerminusSignals /\ last.sess0 # None)
       => last.rel = 1
    /\ (HandlerRan /\ last.type \in TerminusSignals /\ last.sess0 = None)
       => last.calls = <<>>

\* C3: a provide_connection call that starts after an earlier call of the
\* same scope returned handle h, with no release in between, returns h at once
\* and does not invoke pool.acquire.
C3_ProvideIdempotent ==
    (/\ last.op \in {"provide_connection", "provide_connection_await"}
     /\ last.prev # None)
    => (/\ last.op = "provide_connection"
        /\ last.raised = NoError
        /\ last.ret = last.prev
        /\ last.calls = <<>>)

\* C3 witness: a second call has returned the first call's handle
C3_Witness ==
    /\ last.op = "provide_connection"
    /\ last.prev # None
    /\ last.ret = last.prev
    /\ last.calls = <<>>

\* C4 (as claimed): a scope that holds a connection also holds the pool the
\* connection came from.
C4_PoolStoredWithConnection ==
    \A s \in Scopes : session[s] # None => poolEntry[s] = ThePool

\* C5 (as claimed): the plain handler, given a terminus signal for a scope
\* holding a connection and its pool, releases the connection and leaves
\* neither the connection entry nor the pool entry in the scope.
C5_BothEntriesCleared ==
    (/\ PlainRan
     /\ last.type \in TerminusSignals
     /\ last.sess0 # None
     /\ last.pool0 # NoPool
     /\ last.raised = NoError)
    => (/\ last.sess0 \in free
        /\ session[last.scope] = None
        /\ poolEntry[last.scope] = NoPool)

\* C5 (amended): the plain handler, given a terminus signal for a scope
\* holding a connection and its pool, invokes pool.release on that
\* connection; when the release returns the connection is idle in the pool
\* and the connection entry is gone while the pool entry stays in the scope;
\* when the release raises both entries stay.
C5_ConnectionEntryCleared ==
    (/\ PlainRan
     /\ last.type \in TerminusSignals
     /\ last.sess0 # None
     /\ last.pool0 # NoPool)
    => (/\ last.calls = <<"release">>
        /\ poolEntry[last.scope] = last.pool0
        /\ IF last.raised = NoError
           THEN last.sess0 \in free /\ session[last.scope] = None
           ELSE session[last.scope] = last.sess0)

\* C5 witness: the plain handler has released a connection of a scope that
\* held the pool entry
C5_Witness ==
    /\ PlainRan
    /\ last.type \in TerminusSignals
    /\ last.sess0 # None
    /\ last.pool0 = ThePool
    /\ last.raised = NoError
    /\ last.sess0 \in free
    /\ session[last.scope] = None

\* C6: the autocommit handler with a connection in scope calls commit() on a
\* response-started signal exactly when the status is in [200, 300) and
\* rollback() for every other status, never both, and calls neither on any
\* other signal.
C6_CommitIffSuccess ==
    (AutocommitRan /\ last.sess0 # None)
    => (/\ ~("commit" \in CallsMade /\ "rollback" \in CallsMade)
        /\ IF last.type = "http.response.start"
           THEN /\ "commit" \in CallsMade <=> InSuccessRange(last.status)
                /\ "rollback" \in CallsMade <=> ~InSuccessRange(last.status)
           ELSE "commit" \notin CallsMade /\ "rollback" \notin CallsMade)

\* C6 witness: a response-started signal with status 200 was committed
C6_Witness ==
    /\ AutocommitRan
    /\ last.sess0 # None
    /\ last.type = "http.response.start"
    /\ last.status = 200
    /\ last.calls[1] = "commit"

\* C7 (as claimed): the autocommit handler, given response-started for a
\* scope holding a leased connection and its pool, commits or rolls back and
\* then releases the connection to the pool while handling that signal.
C7_CommitThenRelease ==
    (/\ AutocommitRan
     /\ last.type = "http.response.start"
     /\ last.sess0 # None
     /\ last.pool0 # NoPool)
    => (/\ Len(last.calls) = 2
        /\ last.calls[1] \in {"commit", "rollback"}
        /\ last.calls[2] = "release"
        /\ last.sess0 \in free)

\* C8 (as claimed): when commit() or rollback() raises while the autocommit
\* handler handles response-started, the connection is still released to the
\* pool exactly once and the scope's connection entry is cleared.
C8_ReleaseDespiteFailure ==
    (/\ AutocommitRan
     /\ last.type = "http.response.start"
     /\ last.sess0 # None
     /\ last.pool0 # NoPool
     /\ ~last.txOk)
    => (/\ last.rel = 1
        /\ last.sess0 \in free
        /\ session[last.scope] = None)

\* C9: a signal handled by either handler for a scope that holds no
\* connection (as every scope that never acquired one) performs no pool
\* operation and no commit/rollback, raises nothing and leaves both scope
\* entries as they were.
C9_NoConnectionNoOp ==
    (HandlerRan /\ last.sess0 = None)
    => (/\ last.calls = <<>>
        /\ last.raised = NoError
        /\ last.rel = 0
        /\ session[last.scope] = None
        /\ poolEntry[last.scope] = last.pool0)

\* C9 witness: a terminus signal was handled for a scope while no connection
\* had left the pool and no provide_connection call was in flight
C9_Witness ==
    /\ HandlerRan
    /\ last.sess0 = None
    /\ last.type \in TerminusSignals
    /\ last.calls = <<>>
    /\ free = Conns
    /\ \A s \in Scopes : pending[s] = 0 /\ prevRet[s] = None

\* C10 (as claimed): at most one pool.acquire is in flight per scope, and
\* every connection acquired for a scope is the one stored in that scope.
C10_OneAcquirePerScope ==
    /\ \A s \in Scopes : pending[s] <= 1
    /\ \A c \in Conns : owner[c] # None => session[owner[c]] = c

\* C11 (as claimed): with every connection of the pool leased, once a
\* terminus signal was handled (the handler returned) for scope a that holds
\* connection c while a provide_connection call of another scope b is
\* suspended in pool.acquire(), the call of b eventually gets c.
C11_WaiterGetsConnection ==
    \A a \in Scopes, b \in Scopes, c \in Conns :
        (/\ a # b
         /\ HandlerRan
         /\ last.scope = a
         /\ last.type \in TerminusSignals
         /\ last.sess0 = c
         /\ last.raised = NoError
         /\ pending[b] > 0
         /\ session[b] = None)
        ~> (session[b] = c)

\* C12 (as claimed): a provide_connection call made in a scope whose
\* connection a terminus signal has released (here: the call that directly
\* follows the releasing handler) does not invoke pool.acquire.
C12_ReleasedIsTerminal ==
    (/\ last.op \in {"provide_connection", "provide_connection_await"}
     /\ last.again)
    => last.calls = <<>>

\* C13 (as claimed): the connection entry of a scope is a connection leased
\* to that scope, and a handle provide_connection returns is leased to the
\* scope it is returned for, whichever handler ran and however the release
\* ended.
C13_EntryIsLeased ==
    /\ \A s \in Scopes : session[s] # None => owner[session[s]] = s
    /\ (last.op = "provide_connection" /\ last.raised = NoError)
       => owner[last.ret] = last.scope

\* C14: an on_startup that returns has stored the config's pool in the
\* application state; an on_shutdown that finds a pool there (so: after a
\* startup) removes the key and calls close() on that pool, once; a
\* provide_pool in between returns that same pool.
C14_StartupStoresShutdownCloses ==
    /\ (last.op = "on_startup" /\ last.raised = NoError)
       => (appState # NoPool /\ appState = poolInstance
           /\ provide_pool = appState)
    /\ (last.op = "on_shutdown" /\ last.app0 # NoPool)
       => (/\ last.raised = NoError
           /\ appState = NoPool
           /\ last.calls = <<"close">>
           /\ last.app0 = poolInstance
           /\ poolClosed)
    /\ (last.op = "provide_pool" /\ last.app0 # NoPool)
       => (last.raised = NoError /\ last.pret = last.app0
           /\ last.pret = poolInstance)

\* C14 witness: an on_shutdown has removed and closed the pool that the
\* startup stored
C14_Witness ==
    /\ last.op = "on_shutdown"
    /\ last.app0 = ThePool
    /\ last.calls = <<"close">>
    /\ appState = NoPool
    /\ poolClosed

\* C15: create_pool (called on its own or by on_startup) raises the
\* configuration error when neither pool_config nor pool_instance is set,
\* and when the construction of the pool yields no instance; whenever it
\* raises, the config holds no pool afterwards and the application state is
\* as it was, without a pool.  With a pool_instance set it returns that
\* instance and constructs nothing.
C15_CreatePoolContract ==
    (last.op \in {"create_pool", "on_startup"})
    => (/\ (last.inst0 = NoPool /\ ~poolConfig)
           => last.raised = "ImproperlyConfiguredException"
        /\ (last.calls = <<"asyncpg_create_pool">> /\ last.built = NoPool)
           => last.raised = "ImproperlyConfiguredException"
        /\ last.raised # NoError
           => (/\ poolInstance = NoPool
               /\ appState = NoPool
               /\ last.app0 = NoPool
               /\ last.pret = NoPool)
        /\ last.inst0 # NoPool
           => (/\ last.raised = NoError
               /\ last.calls = <<>>
               /\ poolInstance = last.inst0
               /\ last.op = "create_pool" => last.pret = last.inst0
               /\ last.op = "on_startup" => appState = last.inst0))

\* C15 witness: create_pool has raised on a config with neither pool_config
\* nor pool_instance
C15_Witness ==
    /\ last.op = "create_pool"
    /\ last.inst0 = NoPool
    /\ ~poolConfig
    /\ last.raised = "ImproperlyConfiguredException"
    /\ poolInstance = NoPool

\* C16 (as claimed): provide_pool called while the application state holds
\* no pool raises the configuration error and returns nothing, and a
\* provide_connection that has to acquire in that state raises that same
\* error without invoking pool.acquire.
C16_ProvidePoolFailsWithoutPool ==
    /\ (last.op = "provide_pool" /\ last.app0 = NoPool)
       => last.raised = "ImproperlyConfiguredException"
    /\ (/\ last.op \in {"provide_connection", "provide_connection_await"}
        /\ last.sess0 = None
        /\ last.app0 = NoPool)
       => (/\ last.raised = "ImproperlyConfiguredException"
           /\ last.calls = <<>>)

\* C17 (as claimed): on_shutdown called while the application state has no
\* pool key (no startup yet, or a shutdown already removed it) raises
\* nothing, closes nothing and leaves the application state as it was.
C17_ShutdownWithoutPoolIsNoOp ==
    (last.op = "on_shutdown" /\ last.app0 = NoPool)
    => (/\ last.raised = NoError
        /\ last.calls = <<>>
        /\ appState = NoPool)

\* C18: a handler given a message whose type is not a terminus signal makes
\* no release, commit or rollback call, raises nothing and leaves the
\* connection entry and the pool entry of the scope as they were; a
\* connection held by the scope is still leased to it, with no release
\* invocation added.
C18_NonTerminusLeavesScope ==
    (HandlerRan /\ last.type \notin TerminusSignals)
    => (/\ last.calls = <<>>
        /\ last.raised = NoError
        /\ session[last.scope] = last.sess0
        /\ poolEntry[last.scope] = last.pool0
        /\ last.sess0 # None
           => (/\ owner[last.sess0] = last.scope
               /\ last.sess0 \notin free
               /\ relCalls[last.sess0] = last.rel))

\* C18 witness: a response-body message was handled for a scope that holds
\* a leased connection
C18_Witness ==
    /\ HandlerRan
    /\ last.type = "http.response.body"
    /\ last.sess0 # None
    /\ session[last.scope] = last.sess0
    /\ last.sess0 \notin free

\* C19 (as claimed): the pool held in the application state is never a pool
\* on which close() has been called.
C19_StoredPoolIsOpen ==
    appState # NoPool => ~poolClosed

====
